---- MODULE Spec2Model ----
(***************************************************************************)
(* protofsm.StateMachine: the generic FSM driver of                        *)
(* protofsm/state_machine.go, run against a small state graph that         *)
(* exercises every kind of emission (internal events, each daemon event    *)
(* kind, a terminal state, a failing transition).                          *)
(*                                                                         *)
(* Goroutines are modelled as interleaved processes: the callers of Start, *)
(* Stop and SendEvent, the driver (driveMachine), and the auxiliary        *)
(* goroutines executeDaemonEvent spawns.  A Go select with several ready   *)
(* cases is a nondeterministic choice between them.  A blocked channel     *)
(* operation or wg.Wait is an action that is not enabled.                  *)
(*                                                                         *)
(* lnwallet/chancloser: the states and events of the RBF cooperative close *)
(* (rbf_coop_states.go), with IsTerminal, ShouldRouteTo and the methods of *)
(* CloseChannelTerms.  The close machine is run burst by burst, as         *)
(* applyEvents and driveMachine run it.                                    *)
(***************************************************************************)
EXTENDS Integers, Sequences, FiniteSets, TLC

(* ---------------------------------------------------------------- bounds *)

\* Number of calls the outside producer makes of SendEvent (or SendMessage).
MaxSends == 2

\* Start and Stop may be called any number of times; the calls are counted
\* as none, one, several.
CountCall(n) == IF n < 2 THEN n + 1 ELSE n

\* The balances and fees of the close terms lie within MaxDelta satoshis of
\* a dust limit.
MaxDelta == 1

\* Number of events handed to the channel closer.
MaxCloseEvents == 7

(* ------------------------------------------------------ program constants *)

\* events: make(chan Event, 1)
EventChanCap == 1

(* --------------------------------------------------------- the state graph *)

NoEvent == "none"

\* The events of the state graph driven by the machine.
Events == {"next", "chain", "io", "fin"}

\* The states of the state graph; "Fin" is the terminal one.
States == {"A", "B", "C", "Fin"}

\* The outside caller of Stop, and the goroutine of the driver's `go s.Stop()`.
Users == {"u1"}
Stoppers == Users \cup {"auto"}

\* A daemon event: kind, SendWhen present (SendMsg only), post event.
Fx(kind, pred, post) == [kind |-> kind, pred |-> pred, post |-> post]

NoFx == Fx("none", FALSE, NoEvent)

\* cfg.InitialState
InitialState == "A"

\* cfg.InitEvent: absent, or a broadcast (the value the machine is configured
\* with is chosen at construction).
InitEvents == {NoFx, Fx("Broadcast", FALSE, NoEvent)}

\* State.IsTerminal
IsTerminal(st) == st = "Fin"

Advance(st) == CASE st = "A" -> "B" [] st = "B" -> "C" [] OTHER -> st

Trans(err, next, internal, external) ==
    [err |-> err, next |-> next, internal |-> internal, external |-> external]

\* State.ProcessEvent(event, env): the transition function of the state graph.
\* An event a state does not accept is an error; the terminal state accepts
\* every event and stays where it is.
\*   "next"  A -> B -> C -> C, disables the channel
\*   "chain" A -> B and emits the internal event "next" (so the burst ends in
\*           C); C -> Fin and emits the internal event "next"; not accepted
\*           in B
\*   "io"    A -> B with a predicated send whose post event is "next", and a
\*           broadcast; B -> C with a send and a spend registration, each
\*           with the post event "next"; C -> C with a broadcast and a confirmation
\*           registration whose post event is "next"
\*   "fin"   to Fin from everywhere
ProcessEvent(st, ev) ==
    CASE st = "Fin" -> Trans(FALSE, "Fin", NoEvent, <<>>)
      [] ev = "next" ->
            Trans(FALSE, Advance(st), NoEvent,
                  <<Fx("Disable", FALSE, NoEvent)>>)
      [] ev = "chain" /\ st = "A" ->
            Trans(FALSE, "B", "next",
                  <<Fx("Broadcast", FALSE, NoEvent),
                    Fx("SendMsg", FALSE, NoEvent)>>)
      [] ev = "chain" /\ st = "C" ->
            Trans(FALSE, "Fin", "next", <<>>)
      [] ev = "io" /\ st = "A" ->
            Trans(FALSE, "B", NoEvent,
                  <<Fx("SendMsg", TRUE, "next"),
                    Fx("Broadcast", FALSE, NoEvent)>>)
      [] ev = "io" /\ st = "B" ->
            Trans(FALSE, "C", NoEvent,
                  <<Fx("SendMsg", FALSE, "next"),
                    Fx("RegSpend", FALSE, "next")>>)
      [] ev = "io" /\ st = "C" ->
            Trans(FALSE, "C", NoEvent,
                  <<Fx("Broadcast", FALSE, NoEvent),
                    Fx("RegConf", FALSE, "next")>>)
      [] ev = "fin" -> Trans(FALSE, "Fin", NoEvent, <<>>)
      [] OTHER -> Trans(TRUE, st, NoEvent, <<>>)

(* ------------------------------------------------------- the wire messages *)

\* The wire messages handed to SendMessage and CanHandle.
Msgs == {"m_next", "m_chain", "m_fin", "m_other"}

\* cfg.MsgMapper: absent, or one of two mappers.
NoMapper == "none"
Mappers == {NoMapper, "full", "narrow"}

\* MsgMapper.MapMsg: the event a mapper extracts from a wire message, NoEvent
\* when it extracts none.  Each mapper is a function of the message.
MapMsg(mapper, m) ==
    CASE mapper = "full" /\ m = "m_next" -> "next"
      [] mapper = "full" /\ m = "m_chain" -> "chain"
      [] mapper = "full" /\ m = "m_fin" -> "fin"
      [] mapper = "narrow" /\ m = "m_next" -> "next"
      [] OTHER -> NoEvent

\* The reply channel of a state query holds nothing.
NoReply == "empty"

\* What a CurrentState call returned: nothing yet, a state, or an error.
NoReturn == "none"
ErrShuttingDown == "shutting down"
ErrTimeout == "timeout"

(* ------------------------------------- the close protocol: states and events *)

\* ProtocolEvents
ProtocolEvents == {"SendShutdown", "ShutdownReceived", "ShutdownComplete",
                   "ChannelFlushed", "SendOfferEvent", "OfferReceivedEvent",
                   "LocalSigReceived", "SpendEvent"}

\* ProtocolStates
ProtocolStates == {"ChannelActive", "ShutdownPending", "ChannelFlushing",
                   "ClosingNegotiation", "LocalCloseStart", "LocalOfferSent",
                   "RemoteCloseStart", "ClosePending", "CloseFin"}

\* The states that implement AsymmetricPeerState: the values of
\* DualPeerState.LocalState and DualPeerState.RemoteState.
LocalPeerStates == {"LocalCloseStart", "LocalOfferSent", "ClosePending"}
RemotePeerStates == {"RemoteCloseStart", "ClosePending"}

NoPeer == "none"

\* IsTerminal of each protocol state.
ProtocolIsTerminal(s) ==
    CASE s = "ChannelActive" -> FALSE
      [] s = "ShutdownPending" -> FALSE
      [] s = "ChannelFlushing" -> FALSE
      [] s = "ClosingNegotiation" -> FALSE
      [] s = "LocalCloseStart" -> FALSE
      [] s = "LocalOfferSent" -> FALSE
      [] s = "ClosePending" -> TRUE
      [] s = "CloseFin" -> TRUE
      [] s = "RemoteCloseStart" -> FALSE

\* A LocalCloseStart that also claims the remote party's offer.
ShouldRouteToLocalTakesOffer(s, ev) ==
    CASE s = "LocalCloseStart" ->
              ev \in {"SendOfferEvent", "OfferReceivedEvent"}
      [] s = "LocalOfferSent" -> ev = "LocalSigReceived"
      [] s = "ClosePending" -> ev = "SpendEvent"
      [] s = "RemoteCloseStart" -> ev = "OfferReceivedEvent"
      [] OTHER -> FALSE

\* ShouldRouteTo of each AsymmetricPeerState.
ShouldRouteTo(s, ev) ==
    CASE s = "LocalCloseStart" -> ev = "SendOfferEvent"
      [] s = "LocalOfferSent" -> ev = "LocalSigReceived"
      [] s = "ClosePending" -> ev = "SpendEvent"
      [] s = "RemoteCloseStart" -> ev = "OfferReceivedEvent"
      [] OTHER -> FALSE

\* A state of the close machine: the outer state, for ClosingNegotiation its
\* PeerState (LocalState, RemoteState), for ChannelFlushing whether
\* EarlyRemoteOffer is set.
CloseState(name, local, remote, early) ==
    [name |-> name, local |-> local, remote |-> remote, early |-> early]

Outer(name) == CloseState(name, NoPeer, NoPeer, FALSE)

\* The closer starts in ChannelActive.
CloseInitialState == Outer("ChannelActive")

\* The error a transition function returns, if any.
NoError == "none"
ErrInvalidStateTransition == "invalid state transition"

CloseTrans(err, next, internal, external) ==
    [err |-> err, next |-> next, internal |-> internal, external |-> external]

Invalid(st) == CloseTrans(ErrInvalidStateTransition, st, NoEvent, <<>>)

\* The ProcessEvent methods are not part of rbf_coop_states.go; the
\* transitions below are those of the state graph of the design.

\* ClosingNegotiation.ProcessEvent chooses the side the event goes to: the
\* side whose ShouldRouteTo answers true, the remote side first for an
\* offer and the local side first otherwise.
RouteTo(st, ev) ==
    LET l == ShouldRouteTo(st.local, ev)
        r == ShouldRouteTo(st.remote, ev)
    IN CASE l /\ r -> IF ev = "OfferReceivedEvent" THEN "remote" ELSE "local"
         [] l /\ ~r -> "local"
         [] r /\ ~l -> "remote"
         [] OTHER -> "none"

\* ProcessEvent of a peer state inside ClosingNegotiation, for the side the
\* event was routed to.  ClosePending goes to CloseFin on the spend and back
\* to ChannelFlushing on a fresh SendShutdown or OfferReceivedEvent.
PeerProcessEvent(st, side, ev) ==
    LET s == IF side = "local" THEN st.local ELSE st.remote
        to(p) == IF side = "local" THEN [st EXCEPT !.local = p]
                 ELSE [st EXCEPT !.remote = p]
    IN CASE s = "LocalCloseStart" /\ ev = "SendOfferEvent" ->
              CloseTrans(NoError, to("LocalOfferSent"), NoEvent,
                         <<"SendMsg">>)
         [] s = "LocalOfferSent" /\ ev = "LocalSigReceived" ->
              CloseTrans(NoError, to("ClosePending"), NoEvent,
                         <<"Broadcast">>)
         [] s = "RemoteCloseStart" /\ ev = "OfferReceivedEvent" ->
              CloseTrans(NoError, to("ClosePending"), NoEvent,
                         <<"Broadcast">>)
         [] s = "ClosePending" /\ ev = "SpendEvent" ->
              CloseTrans(NoError, Outer("CloseFin"), NoEvent, <<>>)
         [] s = "ClosePending"
              /\ ev \in {"SendShutdown", "OfferReceivedEvent"} ->
              CloseTrans(NoError, Outer("ChannelFlushing"), NoEvent, <<>>)
         [] OTHER -> Invalid(st)

\* A ChannelActive that goes to ChannelFlushing at once.
ChannelActiveToFlushing(st, ev) ==
    IF ev \in {"SendShutdown", "ShutdownReceived"}
    THEN CloseTrans(NoError, Outer("ChannelFlushing"), NoEvent, <<>>)
    ELSE Invalid(st)

\* ChannelActive.ProcessEvent: SendShutdown (we send our shutdown message)
\* and ShutdownReceived lead to ShutdownPending.
ChannelActiveProcessEvent(st, ev) ==
    CASE ev = "SendShutdown" ->
              CloseTrans(NoError, Outer("ShutdownPending"), NoEvent,
                         <<"SendMsg">>)
      [] ev = "ShutdownReceived" ->
              CloseTrans(NoError, Outer("ShutdownPending"), NoEvent, <<>>)
      [] OTHER -> Invalid(st)

\* ShutdownPending.ProcessEvent: ShutdownComplete leads to ChannelFlushing.
ShutdownPendingProcessEvent(st, ev) ==
    IF ev = "ShutdownComplete"
    THEN CloseTrans(NoError, Outer("ChannelFlushing"), NoEvent, <<>>)
    ELSE Invalid(st)

\* A ChannelFlushing that forgets the offer it stashed.
ChannelFlushingDropsEarlyOffer(st, ev) ==
    CASE ev = "OfferReceivedEvent" ->
              CloseTrans(NoError, [st EXCEPT !.early = TRUE], NoEvent, <<>>)
      [] ev = "ChannelFlushed" ->
              CloseTrans(NoError,
                         CloseState("ClosingNegotiation", "LocalCloseStart",
                                    "RemoteCloseStart", FALSE),
                         NoEvent, <<>>)
      [] OTHER -> Invalid(st)

\* ChannelFlushing.ProcessEvent: an OfferReceivedEvent is stashed as
\* EarlyRemoteOffer; ChannelFlushed leads to ClosingNegotiation, and the
\* stashed offer is emitted as an internal event.
ChannelFlushingProcessEvent(st, ev) ==
    CASE ev = "OfferReceivedEvent" ->
              CloseTrans(NoError, [st EXCEPT !.early = TRUE], NoEvent, <<>>)
      [] ev = "ChannelFlushed" ->
              CloseTrans(NoError,
                         CloseState("ClosingNegotiation", "LocalCloseStart",
                                    "RemoteCloseStart", FALSE),
                         IF st.early THEN "OfferReceivedEvent" ELSE NoEvent,
                         <<>>)
      [] OTHER -> Invalid(st)

\* ClosingNegotiation.ProcessEvent: the event goes to the side RouteTo
\* names; an event neither side accepts is an invalid state transition.
ClosingNegotiationProcessEvent(st, ev) ==
    IF RouteTo(st, ev) # "none"
    THEN PeerProcessEvent(st, RouteTo(st, ev), ev)
    ELSE Invalid(st)

\* ProcessEvent of the state the close machine is in.  CloseFin takes no
\* event.
CloseProcessEvent(st, ev) ==
    CASE st.name = "ChannelActive" -> ChannelActiveProcessEvent(st, ev)
      [] st.name = "ShutdownPending" -> ShutdownPendingProcessEvent(st, ev)
      [] st.name = "ChannelFlushing" -> ChannelFlushingProcessEvent(st, ev)
      [] st.name = "ClosingNegotiation" ->
              ClosingNegotiationProcessEvent(st, ev)
      [] OTHER -> Invalid(st)

\* CloseStateTransition.NextState.IsTerminal, as the driver consults it: on
\* the outer state.
CloseIsTerminal(st) == ProtocolIsTerminal(st.name)

(* ------------------------------------------ the close protocol: close terms *)

\* len(pkScript) of the delivery scripts a channel is closed to: a P2WPKH
\* script and a P2WSH or P2TR script.
ScriptLens == {22, 34}

\* lnwallet.DustLimitForSize: the dust limit, in satoshis, of an output with
\* a script of the given length.
DustLimitForSize(scriptSize) ==
    CASE scriptSize = 22 -> 294
      [] scriptSize = 34 -> 330
      [] OTHER -> 354

\* lnwire.MilliSatoshi.ToSatoshis: the whole satoshis of an amount.
ToSatoshis(msat) == msat \div 1000

\* The settled balances drawn, in millisatoshis: the amounts whose satoshis
\* are within MaxDelta of a dust limit, with the least and the greatest
\* fraction of a satoshi.
BalanceSats ==
    {DustLimitForSize(l) + d : l \in ScriptLens, d \in (0 - MaxDelta)..MaxDelta}
Balances == {s * 1000 + r : s \in BalanceSats, r \in {0, 999}}

\* The absolute fees drawn, in satoshis.
Fees == BalanceSats \cup {0}

\* CloseChannelTerms: ShutdownBalances and ShutdownScripts (the scripts by
\* their length).
CloseChannelTerms(lb, rb, ls, rs) ==
    [LocalBalance |-> lb, RemoteBalance |-> rb,
     LocalDeliveryScript |-> ls, RemoteDeliveryScript |-> rs]

AllTerms == {CloseChannelTerms(lb, rb, ls, rs) :
                lb \in Balances, rb \in Balances,
                ls \in ScriptLens, rs \in ScriptLens}

\* The zero value: the balances are not known (unknownBalance).
NoTerms == CloseChannelTerms(0, 0, 0, 0)

\* A *wire.TxOut is the set of the output it points to: empty when nil.
NilTxOut == {}

TxOut(pkScript, value) == {[PkScript |-> pkScript, Value |-> value]}

\* deriveTxOut, the closure of DeriveCloseTxOuts.
deriveTxOut(balance, pkScript) ==
    IF balance > DustLimitForSize(pkScript)
    THEN TxOut(pkScript, balance)
    ELSE NilTxOut

\* CloseChannelTerms.DeriveCloseTxOuts: the local and the remote output.
DeriveCloseTxOuts(c) ==
    <<deriveTxOut(ToSatoshis(c.LocalBalance), c.LocalDeliveryScript),
      deriveTxOut(ToSatoshis(c.RemoteBalance), c.RemoteDeliveryScript)>>

\* CloseChannelTerms.RemoteAmtIsDust
RemoteAmtIsDust(c) ==
    ToSatoshis(c.RemoteBalance) < DustLimitForSize(c.RemoteDeliveryScript)

\* CloseChannelTerms.LocalAmtIsDust
LocalAmtIsDust(c) ==
    ToSatoshis(c.LocalBalance) < DustLimitForSize(c.LocalDeliveryScript)

\* A LocalCanPayFees that wants more than the fee.
LocalCanPayFeesStrict(c, absoluteFee) ==
    ToSatoshis(c.LocalBalance) > absoluteFee

\* CloseChannelTerms.LocalCanPayFees
LocalCanPayFees(c, absoluteFee) == ToSatoshis(c.LocalBalance) >= absoluteFee

\* CloseChannelTerms.RemoteCanPayFees
RemoteCanPayFees(c, absoluteFee) == ToSatoshis(c.RemoteBalance) >= absoluteFee

\* A call of a method of the close terms: the method, its argument and what
\* it returned.
TermsCall(fn, arg, ret) == [fn |-> fn, arg |-> arg, ret |-> ret]

NoTermsCall == TermsCall("none", 0, FALSE)

(* ------------------------------------------------------------------ state *)

VARIABLES
    cfgInit,       \* cfg.InitEvent
    startOnce,     \* startOnce has run
    startCalls,    \* Start calls made: none, one, several
    spawned,       \* number of driveMachine goroutines ever spawned
    stopOnce,      \* stopOnce: "new", "running" (inside Do), "done"
    stopPc,        \* position of each Stop caller
    stopCalls,     \* Stop calls each caller has made: none, one, several
    quit,          \* the quit channel is closed
    wg,            \* the WaitGroup counter
    events,        \* the buffered events channel
    dPc,           \* position of the driver goroutine
    currentState,  \* driveMachine's currentState
    applyState,    \* applyEvents' currentState
    eventQueue,    \* applyEvents' eventQueue
    pending,       \* the transition being applied and its daemon events left
    trCount,       \* number of ProcessEvent calls so far
    burst,         \* number of external events taken by the driver
    failed,        \* the driver returned because of an error
    tasks,         \* the live auxiliary goroutines
    nSends,        \* number of SendEvent calls of the producer
    sent,          \* events of the producer accepted by the channel
    processed,     \* external events taken by the driver, in order
    committed,     \* states committed by applyEvents, in order
    published,     \* NotifySubscribers calls, in order
    adapterLog,    \* DaemonAdapters calls, in order
    cleanups,      \* number of Env.CleanUp calls
    reports,       \* number of ErrorReporter.ReportError calls
    cfgMapper,     \* cfg.MsgMapper
    msgLast,       \* the last SendMessage call: message, result, event accepted
    qPc,           \* position of the caller of CurrentState
    qChan,         \* the reply channel query.CurrentState (capacity 1)
    qRet,          \* what the last CurrentState call returned
    qLate,         \* the CurrentState call began after a Stop call had returned
    cState,        \* the channel closer: its driver's currentState
    cFed,          \* the channel closer: events handed to it, in order
    cVisited,      \* the channel closer: states committed by applyEvents
    cCleanups,     \* the channel closer: number of Env.CleanUp calls
    cErr,          \* the channel closer: the error its driver returned on
    cTerms,        \* the close terms of the flushed channel
    cCall          \* the last call of a method of the close terms

vars == <<cfgInit, startOnce, startCalls, spawned, stopOnce, stopPc, stopCalls,
          quit, wg,
          events, dPc, currentState, applyState, eventQueue, pending, trCount,
          burst, failed, tasks, nSends, sent, processed, committed, published,
          adapterLog, cleanups, reports, cfgMapper, msgLast, qPc, qChan, qRet,
          qLate>>

ctlVars == <<cfgInit, startOnce, startCalls, spawned, stopOnce, stopPc,
            stopCalls, quit>>
drvVars == <<dPc, currentState, applyState, eventQueue, pending, trCount,
             burst, failed>>
obsVars == <<committed, published, cleanups, reports>>
prodVars == <<nSends, sent>>
apiVars == <<cfgMapper, msgLast, qPc, qChan, qRet, qLate>>
closeVars == <<cState, cFed, cVisited, cCleanups, cErr, cTerms, cCall>>

NoCall == [msg |-> "none", ret |-> FALSE, acc |-> FALSE]

NoPending == [next |-> InitialState, internal |-> NoEvent, all |-> <<>>,
              left |-> <<>>]

\* No channel closer is running.
NoCloser ==
    /\ cState = CloseInitialState
    /\ cFed = <<>>
    /\ cVisited = <<>>
    /\ cCleanups = 0
    /\ cErr = NoError
    /\ cTerms = NoTerms
    /\ cCall = NoTermsCall

\* NewStateMachine: every field but cfg.InitEvent and cfg.MsgMapper.
NewStateMachine ==
    /\ startOnce = FALSE
    /\ startCalls = 0
    /\ spawned = 0
    /\ stopOnce = "new"
    /\ stopPc = [t \in Stoppers |-> IF t = "auto" THEN "none" ELSE "idle"]
    /\ stopCalls = [t \in Stoppers |-> 0]
    /\ quit = FALSE
    /\ wg = 0
    /\ events = <<>>
    /\ dPc = "none"
    /\ currentState = InitialState
    /\ applyState = InitialState
    /\ eventQueue = <<>>
    /\ pending = NoPending
    /\ trCount = 0
    /\ burst = 0
    /\ failed = FALSE
    /\ tasks = {}
    /\ nSends = 0
    /\ sent = <<>>
    /\ processed = <<>>
    /\ committed = <<>>
    /\ published = <<>>
    /\ adapterLog = <<>>
    /\ cleanups = 0
    /\ reports = 0
    /\ msgLast = NoCall
    /\ qPc = "idle"
    /\ qChan = NoReply
    /\ qRet = NoReturn
    /\ qLate = FALSE

\* A machine built with any of the InitEvent configurations.
InitMachine == cfgInit \in InitEvents /\ NewStateMachine

\* A machine configured without a MsgMapper: it is fed typed events only.
Init == InitMachine /\ cfgMapper = NoMapper /\ NoCloser

\* A machine with any of the MsgMapper configurations.
ApiInit == InitMachine /\ cfgMapper \in Mappers /\ NoCloser

(* ------------------------------------------------------- daemon events *)

\* One DaemonAdapters call: the daemon event it serves (transition tr,
\* position idx) and whether executeDaemonEvent, having made the call,
\* returned an error to the driver.  (The send of a SendWhen poller is made
\* after executeDaemonEvent has returned nil: its failure is the poller's
\* to handle, and is recorded as sendErr.)
LogEntry(fx, err, tr, idx) ==
    [tr |-> tr, idx |-> idx, kind |-> fx.kind, pred |-> fx.pred,
     err |-> err /\ ~fx.pred, sendErr |-> err /\ fx.pred]

Task(kind, pc, fx, tr, idx) == [id |-> <<tr, idx>>, kind |-> kind, pc |-> pc,
                                post |-> fx.post]

Result(err, call, spawn) == [err |-> err, call |-> call, spawn |-> spawn]

\* A sendAndCleanUp that hands on the PostSendEvent whether or not
\* SendMessages succeeded.
sendAndPostAlways(fx, ok, tr, idx) ==
    Result(~ok, <<LogEntry(fx, ~ok, tr, idx)>>,
           IF fx.post # NoEvent
           THEN {Task("disp", "send", fx, tr, idx)} ELSE {})

\* sendAndCleanUp: Daemon.SendMessages, then the goroutine that hands the
\* PostSendEvent to SendEvent.
sendAndCleanUp(fx, ok, tr, idx) ==
    Result(~ok, <<LogEntry(fx, ~ok, tr, idx)>>,
           IF ok /\ fx.post # NoEvent
           THEN {Task("disp", "send", fx, tr, idx)} ELSE {})

\* An executeDaemonEvent that calls the adapter and drops its error.
executeDaemonEventDropErr(fx, ok, tr, idx) ==
    Result(FALSE, <<LogEntry(fx, ~ok, tr, idx)>>, {})

\* executeDaemonEvent: the error returned, the adapter calls made and the
\* goroutines spawned (each with wg.Add(1)); ok is the adapter's answer.
\* The RegisterConf case has no return of its own: after the waiter is
\* spawned control reaches the final "unknown daemon event" error.
executeDaemonEvent(fx, ok, tr, idx) ==
    CASE fx.kind = "SendMsg" /\ ~fx.pred -> sendAndCleanUp(fx, ok, tr, idx)
      [] fx.kind = "SendMsg" /\ fx.pred ->
            Result(FALSE, <<>>, {Task("poller", "poll", fx, tr, idx)})
      [] fx.kind \in {"Disable", "Broadcast"} ->
            Result(~ok, <<LogEntry(fx, ~ok, tr, idx)>>, {})
      [] fx.kind = "RegSpend" ->
            Result(~ok, <<LogEntry(fx, ~ok, tr, idx)>>,
                   IF ok THEN {Task("spend", "wait", fx, tr, idx)} ELSE {})
      [] fx.kind = "RegConf" ->
            Result(TRUE, <<LogEntry(fx, TRUE, tr, idx)>>,
                   IF ok THEN {Task("conf", "wait", fx, tr, idx)} ELSE {})
      [] OTHER -> Result(TRUE, <<>>, {})

\* The adapter is consulted, so its answer is an input of the step.
CallsAdapter(fx) == fx.kind # "none" /\ ~(fx.kind = "SendMsg" /\ fx.pred)

(* ------------------------------------------------------------ Start, Stop *)

\* A Start without the startOnce guard: every call spawns a driver.
StartEveryCall(done) == TRUE

\* startOnce.Do runs its function on the first call only.
StartOnceDo(done) == ~done

\* Start
Start ==
    /\ startCalls' = CountCall(startCalls)
    /\ IF StartOnceDo(startOnce)
       THEN /\ startOnce' = TRUE
            /\ wg' = wg + 1
            /\ spawned' = spawned + 1
            /\ dPc' = "init"
       ELSE UNCHANGED <<startOnce, wg, spawned, dPc>>
    /\ UNCHANGED <<cfgInit, stopOnce, stopPc, stopCalls, quit, events,
                   currentState, applyState, eventQueue, pending, trCount,
                   burst, failed, tasks, adapterLog>>
    /\ UNCHANGED <<prodVars, processed, obsVars>>
    /\ UNCHANGED <<apiVars, closeVars>>

\* Stop, up to wg.Wait: the first caller closes quit inside stopOnce.Do, a
\* caller that finds the Do running blocks until it is over, a later caller
\* returns at once.
StopCall(t) ==
    /\ stopPc[t] \in {"idle", "returned"}
    /\ t \in Users \/ stopCalls[t] = 0
    /\ stopCalls' = [stopCalls EXCEPT ![t] = CountCall(@)]
    /\ CASE stopOnce = "new" ->
              /\ stopOnce' = "running"
              /\ quit' = TRUE
              /\ stopPc' = [stopPc EXCEPT ![t] = "waiting"]
         [] stopOnce = "running" ->
              /\ stopPc' = [stopPc EXCEPT ![t] = "blocked"]
              /\ UNCHANGED <<stopOnce, quit>>
         [] OTHER ->
              /\ stopPc' = [stopPc EXCEPT ![t] = "returned"]
              /\ UNCHANGED <<stopOnce, quit>>
    /\ UNCHANGED <<cfgInit, startOnce, startCalls, spawned, wg, events, tasks,
                   adapterLog, processed>>
    /\ UNCHANGED <<drvVars, prodVars, obsVars>>
    /\ UNCHANGED <<apiVars, closeVars>>

\* Stop: wg.Wait returns and stopOnce.Do completes.
StopWait(t) ==
    /\ stopPc[t] = "waiting"
    /\ wg = 0
    /\ stopOnce' = "done"
    /\ stopPc' = [stopPc EXCEPT ![t] = "returned"]
    /\ UNCHANGED <<cfgInit, startOnce, startCalls, spawned, stopCalls, quit,
                   wg, events, tasks, adapterLog, processed>>
    /\ UNCHANGED <<drvVars, prodVars, obsVars>>
    /\ UNCHANGED <<apiVars, closeVars>>

\* Stop: a caller blocked in stopOnce.Do returns once the first call is over.
StopUnblock(t) ==
    /\ stopPc[t] = "blocked"
    /\ stopOnce = "done"
    /\ stopPc' = [stopPc EXCEPT ![t] = "returned"]
    /\ UNCHANGED <<cfgInit, startOnce, startCalls, spawned, stopOnce,
                   stopCalls, quit, wg, events, tasks, adapterLog, processed>>
    /\ UNCHANGED <<drvVars, prodVars, obsVars>>
    /\ UNCHANGED <<apiVars, closeVars>>

(* -------------------------------------------------------------- SendEvent *)

Msg(ev, src) == [ev |-> ev, src |-> src]

\* SendEvent of the producer, case s.events <- event.
ProducerSend(e) ==
    /\ nSends < MaxSends
    /\ Len(events) < EventChanCap
    /\ events' = Append(events, Msg(e, "prod"))
    /\ nSends' = nSends + 1
    /\ sent' = Append(sent, e)
    /\ UNCHANGED <<ctlVars, drvVars, obsVars, wg, tasks, adapterLog,
                   processed>>
    /\ UNCHANGED <<apiVars, closeVars>>

\* SendEvent of the producer, case <-s.quit: the event is dropped.
ProducerSendQuit ==
    /\ nSends < MaxSends
    /\ quit
    /\ nSends' = nSends + 1
    /\ UNCHANGED <<ctlVars, drvVars, obsVars, wg, tasks, adapterLog, events,
                   sent, processed>>
    /\ UNCHANGED <<apiVars, closeVars>>

(* ---------------------------------------------------------- driveMachine *)

\* A distributor handed the newest state ahead of the earlier ones.
NotifyNewestFirst(pub, st, tr, b, mid) ==
    <<[st |-> st, tr |-> tr, burst |-> b, mid |-> mid]>> \o pub

\* A driver that publishes only the state of a drained burst.
NotifyDrainedOnly(pub, st, tr, b, mid) ==
    IF mid THEN pub
    ELSE Append(pub, [st |-> st, tr |-> tr, burst |-> b, mid |-> mid])

\* The call s.newStateEvents.NotifySubscribers(state), recorded in the order
\* the driver makes it; the call is taken to return without blocking.  tr is
\* the transition that produced the state (0: the initial state), b its
\* burst, mid tells whether internal events were still queued when it was
\* published.
NotifySubscribers(pub, st, tr, b, mid) ==
    Append(pub, [st |-> st, tr |-> tr, burst |-> b, mid |-> mid])

\* The daemon events of a transition executed last to first.
ReverseOrder(n) == [i \in 1..n |-> n + 1 - i]

\* Positions of a daemon event set in the order of `for _, dEvent := range`.
RangeOrder(n) == [i \in 1..n |-> i]

\* An applyEvents that does not take over the transition's next state.
KeepState(cur, next) == cur

\* applyEvents: currentState = transition.NextState
CommitState(cur, next) == next

\* driveMachine before the loop: the InitEvent is executed; an error ends the
\* goroutine (deferred wg.Done) without any report and without Stop.
DriverInitEvent(ok) ==
    /\ dPc = "init"
    /\ ok \/ CallsAdapter(cfgInit)
    /\ LET r == IF cfgInit = NoFx THEN Result(FALSE, <<>>, {})
                ELSE executeDaemonEvent(cfgInit, ok, 0, 1)
       IN /\ adapterLog' = adapterLog \o r.call
          /\ tasks' = tasks \cup r.spawn
          /\ IF r.err
             THEN /\ dPc' = "exited"
                  /\ wg' = wg + Cardinality(r.spawn) - 1
             ELSE /\ dPc' = "notify"
                  /\ wg' = wg + Cardinality(r.spawn)
    /\ UNCHANGED <<ctlVars, prodVars, obsVars, events, currentState,
                   applyState, eventQueue, pending, trCount, burst, failed,
                   processed>>
    /\ UNCHANGED <<apiVars, closeVars>>

\* A driver that enters its loop without publishing the starting state.
DriverSkipNotifyInit ==
    /\ dPc = "notify"
    /\ dPc' = "select"
    /\ UNCHANGED <<ctlVars, prodVars, obsVars, wg, events, tasks, adapterLog,
                   currentState, applyState, eventQueue, pending, trCount,
                   burst, failed, processed>>
    /\ UNCHANGED <<apiVars, closeVars>>

\* driveMachine before the loop: the starting state is published.
DriverNotifyInit ==
    /\ dPc = "notify"
    /\ published' = NotifySubscribers(published, currentState, 0, 0, FALSE)
    /\ dPc' = "select"
    /\ UNCHANGED <<ctlVars, prodVars, wg, events, tasks, adapterLog,
                   currentState, applyState, eventQueue, pending, trCount,
                   burst, failed, processed, committed, cleanups, reports>>
    /\ UNCHANGED <<apiVars, closeVars>>

\* A driver that takes an event from the channel between two transitions
\* of a burst and puts it on the queue of the burst.
DriverTakeEventInBurst ==
    /\ dPc \in {"select", "apply"}
    /\ events # <<>>
    /\ events' = Tail(events)
    /\ processed' = Append(processed, Head(events))
    /\ eventQueue' = Append(eventQueue, Head(events).ev)
    /\ applyState' = IF dPc = "select" THEN currentState ELSE applyState
    /\ burst' = burst + 1
    /\ dPc' = "apply"
    /\ UNCHANGED <<ctlVars, prodVars, obsVars, wg, tasks, adapterLog,
                   currentState, pending, trCount, failed>>
    /\ UNCHANGED <<apiVars, closeVars>>

\* driveMachine, case newEvent := <-s.events; applyEvents seeds its queue.
DriverTakeEvent ==
    /\ dPc = "select"
    /\ events # <<>>
    /\ events' = Tail(events)
    /\ processed' = Append(processed, Head(events))
    /\ eventQueue' = <<Head(events).ev>>
    /\ applyState' = currentState
    /\ burst' = burst + 1
    /\ dPc' = "apply"
    /\ UNCHANGED <<ctlVars, prodVars, obsVars, wg, tasks, adapterLog,
                   currentState, pending, trCount, failed>>
    /\ UNCHANGED <<apiVars, closeVars>>

\* applyEvents: Dequeue and currentState.ProcessEvent.
DriverProcess ==
    /\ dPc = "apply"
    /\ eventQueue # <<>>
    /\ LET tr == ProcessEvent(applyState, Head(eventQueue))
       IN /\ eventQueue' = Tail(eventQueue)
          /\ trCount' = trCount + 1
          /\ IF tr.err
             THEN /\ dPc' = "err"
                  /\ UNCHANGED pending
             ELSE /\ dPc' = "fx"
                  /\ pending' = [next |-> tr.next, internal |-> tr.internal,
                                 all |-> tr.external,
                                 left |-> RangeOrder(Len(tr.external))]
    /\ UNCHANGED <<ctlVars, prodVars, obsVars, wg, events, tasks, adapterLog,
                   currentState, applyState, burst, failed, processed>>
    /\ UNCHANGED <<apiVars, closeVars>>

\* applyEvents: executeDaemonEvent for the next daemon event of the
\* transition; an error aborts applyEvents.
DriverExecFx(ok) ==
    /\ dPc = "fx"
    /\ pending.left # <<>>
    /\ LET idx == Head(pending.left)
           fx == pending.all[idx]
           r == executeDaemonEvent(fx, ok, trCount, idx)
       IN /\ ok \/ CallsAdapter(fx)
          /\ adapterLog' = adapterLog \o r.call
          /\ tasks' = tasks \cup r.spawn
          /\ wg' = wg + Cardinality(r.spawn)
          /\ IF r.err
             THEN /\ dPc' = "err"
                  /\ UNCHANGED pending
             ELSE /\ dPc' = "fx"
                  /\ pending' = [pending EXCEPT !.left = Tail(pending.left)]
    /\ UNCHANGED <<ctlVars, prodVars, obsVars, events, currentState,
                   applyState, eventQueue, trCount, burst, failed, processed>>
    /\ UNCHANGED <<apiVars, closeVars>>

\* An applyEvents that calls Env.CleanUp as soon as a transition yields a
\* terminal state.
DriverCommitCleansUp ==
    /\ dPc = "fx"
    /\ pending.left = <<>>
    /\ eventQueue' = IF pending.internal # NoEvent
                     THEN Append(eventQueue, pending.internal)
                     ELSE eventQueue
    /\ applyState' = CommitState(applyState, pending.next)
    /\ committed' = Append(committed, applyState')
    /\ published' = NotifySubscribers(published, applyState', trCount, burst,
                                      eventQueue' # <<>>)
    /\ pending' = NoPending
    /\ dPc' = "apply"
    /\ UNCHANGED <<ctlVars, prodVars, wg, events, tasks, adapterLog,
                   currentState, trCount, burst, failed, processed, reports>>
    /\ cleanups' = IF IsTerminal(applyState') THEN cleanups + 1 ELSE cleanups
    /\ UNCHANGED <<apiVars, closeVars>>

\* applyEvents: the internal event is enqueued, the state updated and the
\* subscribers notified.
DriverCommit ==
    /\ dPc = "fx"
    /\ pending.left = <<>>
    /\ eventQueue' = IF pending.internal # NoEvent
                     THEN Append(eventQueue, pending.internal)
                     ELSE eventQueue
    /\ applyState' = CommitState(applyState, pending.next)
    /\ committed' = Append(committed, applyState')
    /\ published' = NotifySubscribers(published, applyState', trCount, burst,
                                      eventQueue' # <<>>)
    /\ pending' = NoPending
    /\ dPc' = "apply"
    /\ UNCHANGED <<ctlVars, prodVars, wg, events, tasks, adapterLog,
                   currentState, trCount, burst, failed, processed, cleanups,
                   reports>>
    /\ UNCHANGED <<apiVars, closeVars>>

\* applyEvents returns without error: driveMachine takes the new state and,
\* if it is terminal, calls Env.CleanUp; the loop goes on.
DriverBurstEnd ==
    /\ dPc = "apply"
    /\ eventQueue = <<>>
    /\ currentState' = applyState
    /\ cleanups' = IF IsTerminal(applyState) THEN cleanups + 1 ELSE cleanups
    /\ dPc' = "select"
    /\ UNCHANGED <<ctlVars, prodVars, wg, events, tasks, adapterLog,
                   applyState, eventQueue, pending, trCount, burst, failed,
                   processed, committed, published, reports>>
    /\ UNCHANGED <<apiVars, closeVars>>

\* A driver that reports the error and returns without `go s.Stop()`.
DriverErrorNoStop ==
    /\ dPc = "err"
    /\ reports' = reports + 1
    /\ failed' = TRUE
    /\ wg' = wg - 1
    /\ dPc' = "exited"
    /\ pending' = NoPending
    /\ eventQueue' = <<>>
    /\ UNCHANGED <<ctlVars, prodVars, events, tasks, adapterLog, currentState,
                   applyState, trCount, burst, processed, committed,
                   published, cleanups>>
    /\ UNCHANGED <<apiVars, closeVars>>

\* applyEvents returned an error: ReportError, go s.Stop(), return.
DriverError ==
    /\ dPc = "err"
    /\ reports' = reports + 1
    /\ stopPc' = [stopPc EXCEPT !["auto"] = "idle"]
    /\ failed' = TRUE
    /\ wg' = wg - 1
    /\ dPc' = "exited"
    /\ pending' = NoPending
    /\ eventQueue' = <<>>
    /\ UNCHANGED <<cfgInit, startOnce, startCalls, spawned, stopOnce,
                   stopCalls, quit, prodVars, events, tasks, adapterLog,
                   currentState,
                   applyState, trCount, burst, processed, committed,
                   published, cleanups>>
    /\ UNCHANGED <<apiVars, closeVars>>

\* driveMachine, case <-s.quit.
DriverQuit ==
    /\ dPc = "select"
    /\ quit
    /\ wg' = wg - 1
    /\ dPc' = "exited"
    /\ UNCHANGED <<ctlVars, prodVars, obsVars, events, tasks, adapterLog,
                   currentState, applyState, eventQueue, pending, trCount,
                   burst, failed, processed>>
    /\ UNCHANGED <<apiVars, closeVars>>

(* ---------------------------------------------------- auxiliary goroutines *)

\* A poller that goes on polling after it has sent.
PollerFireAndStay(t, ok) ==
    /\ t \in tasks
    /\ t.pc = "poll"
    /\ LET fx == Fx("SendMsg", TRUE, t.post)
           r == sendAndCleanUp(fx, ok, t.id[1], t.id[2])
       IN /\ adapterLog' = adapterLog \o r.call
          /\ tasks' = tasks \cup r.spawn
          /\ wg' = wg + Cardinality(r.spawn)
    /\ UNCHANGED <<ctlVars, drvVars, prodVars, obsVars, events, processed>>
    /\ UNCHANGED <<apiVars, closeVars>>

\* A poller that tears the machine down when its send fails (go s.Stop()).
PollerFireStopsOnError(t, ok) ==
    /\ t \in tasks
    /\ t.pc = "poll"
    /\ LET fx == Fx("SendMsg", TRUE, t.post)
           r == sendAndCleanUp(fx, ok, t.id[1], t.id[2])
       IN /\ adapterLog' = adapterLog \o r.call
          /\ tasks' = (tasks \ {t}) \cup r.spawn
          /\ wg' = wg + Cardinality(r.spawn) - 1
          /\ stopPc' = IF r.err /\ stopPc["auto"] = "none"
                       THEN [stopPc EXCEPT !["auto"] = "idle"] ELSE stopPc
    /\ UNCHANGED <<cfgInit, startOnce, startCalls, spawned, stopOnce,
                   stopCalls, quit>>
    /\ UNCHANGED <<drvVars, prodVars, obsVars, events, processed>>
    /\ UNCHANGED <<apiVars, closeVars>>

\* The SendWhen poller, on a tick at which the predicate holds: it calls
\* sendAndCleanUp and returns.  (A tick at which the predicate is false
\* changes nothing.)
PollerFire(t, ok) ==
    /\ t \in tasks
    /\ t.pc = "poll"
    /\ LET fx == Fx("SendMsg", TRUE, t.post)
           r == sendAndCleanUp(fx, ok, t.id[1], t.id[2])
       IN /\ adapterLog' = adapterLog \o r.call
          /\ tasks' = (tasks \ {t}) \cup r.spawn
          /\ wg' = wg + Cardinality(r.spawn) - 1
    /\ UNCHANGED <<ctlVars, drvVars, prodVars, obsVars, events, processed>>
    /\ UNCHANGED <<apiVars, closeVars>>

\* A poller or a spend/conf waiter, case <-s.quit.
TaskQuit(t) ==
    /\ t \in tasks
    /\ t.pc \in {"poll", "wait"}
    /\ quit
    /\ tasks' = tasks \ {t}
    /\ wg' = wg - 1
    /\ UNCHANGED <<ctlVars, drvVars, prodVars, obsVars, events, adapterLog,
                   processed>>
    /\ UNCHANGED <<apiVars, closeVars>>

\* A spend/conf waiter, case <-spendEvent.Spend / <-confEvent.Confirmed: with
\* a post event it goes on to SendEvent, without one it returns.
WaiterNotified(t) ==
    /\ t \in tasks
    /\ t.pc = "wait"
    /\ IF t.post = NoEvent
       THEN /\ tasks' = tasks \ {t}
            /\ wg' = wg - 1
       ELSE /\ tasks' = (tasks \ {t}) \cup {[t EXCEPT !.pc = "send"]}
            /\ UNCHANGED wg
    /\ UNCHANGED <<ctlVars, drvVars, prodVars, obsVars, events, adapterLog,
                   processed>>
    /\ UNCHANGED <<apiVars, closeVars>>

\* SendEvent of an auxiliary goroutine, case s.events <- event.
TaskSendEvent(t) ==
    /\ t \in tasks
    /\ t.pc = "send"
    /\ Len(events) < EventChanCap
    /\ events' = Append(events, Msg(t.post, "aux"))
    /\ tasks' = tasks \ {t}
    /\ wg' = wg - 1
    /\ UNCHANGED <<ctlVars, drvVars, prodVars, obsVars, adapterLog,
                   processed>>
    /\ UNCHANGED <<apiVars, closeVars>>

\* A SendEvent without its quit case: the goroutine stays blocked on the
\* full channel.
TaskSendNoQuitCase(t) ==
    /\ t \in tasks
    /\ t.pc = "send"
    /\ FALSE
    /\ UNCHANGED <<vars, closeVars>>

\* SendEvent of an auxiliary goroutine, case <-s.quit.
TaskSendQuit(t) ==
    /\ t \in tasks
    /\ t.pc = "send"
    /\ quit
    /\ tasks' = tasks \ {t}
    /\ wg' = wg - 1
    /\ UNCHANGED <<ctlVars, drvVars, prodVars, obsVars, events, adapterLog,
                   processed>>
    /\ UNCHANGED <<apiVars, closeVars>>

(* ------------------------------------------------- CanHandle, SendMessage *)

\* CanHandle: MapOptionZ over cfg.MsgMapper of MapMsg(msg).IsSome().
CanHandle(m) ==
    IF cfgMapper = NoMapper THEN FALSE ELSE MapMsg(cfgMapper, m) # NoEvent

\* A SendMessage that reports whether the event reached the channel.
SendMessageAccepted(mapped, accepted) == mapped /\ accepted

\* SendMessage's result: `processed`, set once SendEvent has returned for the
\* mapped event, whichever case of its select was taken.
SendMessageResult(mapped, accepted) == mapped

\* SendMessage: false without a mapper; otherwise the message is mapped and,
\* if an event comes out, handed to SendEvent (which returns when the channel
\* accepts it or quit is closed).  An event submitted after a Stop call has
\* returned is marked "late".
SendMessage(m) ==
    /\ nSends < MaxSends
    /\ nSends' = nSends + 1
    /\ LET ev == IF cfgMapper = NoMapper THEN NoEvent
                 ELSE MapMsg(cfgMapper, m)
           src == IF \E t \in Stoppers : stopPc[t] = "returned"
                  THEN "late" ELSE "msg"
       IN \/ /\ ev = NoEvent
             /\ msgLast' = [msg |-> m, ret |-> SendMessageResult(FALSE, FALSE),
                            acc |-> FALSE]
             /\ UNCHANGED <<events, sent>>
          \/ /\ ev # NoEvent
             /\ Len(events) < EventChanCap
             /\ events' = Append(events, Msg(ev, src))
             /\ sent' = Append(sent, ev)
             /\ msgLast' = [msg |-> m, ret |-> SendMessageResult(TRUE, TRUE),
                            acc |-> TRUE]
          \/ /\ ev # NoEvent
             /\ quit
             /\ msgLast' = [msg |-> m, ret |-> SendMessageResult(TRUE, FALSE),
                            acc |-> FALSE]
             /\ UNCHANGED <<events, sent>>
    /\ UNCHANGED <<ctlVars, drvVars, obsVars, wg, tasks, adapterLog,
                   processed, cfgMapper, qPc, qChan, qRet, qLate>>
    /\ UNCHANGED closeVars

(* ------------------------------------------------------------ CurrentState *)

\* CurrentState is called: the query, with a fresh reply channel, is offered
\* on the unbuffered stateQuery channel.
QueryCall ==
    /\ qPc = "idle"
    /\ qPc' = "send"
    /\ qChan' = NoReply
    /\ qRet' = NoReturn
    /\ qLate' = (\E t \in Stoppers : stopPc[t] = "returned")
    /\ UNCHANGED <<ctlVars, drvVars, obsVars, prodVars, wg, events, tasks,
                   adapterLog, processed, cfgMapper, msgLast>>
    /\ UNCHANGED closeVars

\* CurrentState, SendOrQuit(s.stateQuery, ...) takes its quit case.
QuerySendQuit ==
    /\ qPc = "send"
    /\ quit
    /\ qPc' = "idle"
    /\ qRet' = ErrShuttingDown
    /\ UNCHANGED <<ctlVars, drvVars, obsVars, prodVars, wg, events, tasks,
                   adapterLog, processed, cfgMapper, msgLast, qChan, qLate>>
    /\ UNCHANGED closeVars

\* A driver that serves a state query between two events of a burst, with
\* the state the burst has reached.
DriverQueryInBurst ==
    /\ dPc \in {"select", "apply"}
    /\ qPc = "send"
    /\ qPc' = "recv"
    /\ qChan' = applyState
    /\ UNCHANGED <<ctlVars, drvVars, obsVars, prodVars, wg, events, tasks,
                   adapterLog, processed, cfgMapper, msgLast, qRet, qLate>>
    /\ UNCHANGED closeVars

\* driveMachine, case stateQuery := <-s.stateQuery (the caller's send
\* completes), and SendOrQuit puts currentState on the reply channel.
DriverQuery ==
    /\ dPc = "select"
    /\ qPc = "send"
    /\ qPc' = "recv"
    /\ qChan' = currentState
    /\ UNCHANGED <<ctlVars, drvVars, obsVars, prodVars, wg, events, tasks,
                   adapterLog, processed, cfgMapper, msgLast, qRet, qLate>>
    /\ UNCHANGED closeVars

\* driveMachine, case stateQuery := <-s.stateQuery, and SendOrQuit takes its
\* quit case: the driver returns without replying.
DriverQueryQuit ==
    /\ dPc = "select"
    /\ qPc = "send"
    /\ quit
    /\ qPc' = "recv"
    /\ dPc' = "exited"
    /\ wg' = wg - 1
    /\ UNCHANGED <<ctlVars, obsVars, prodVars, events, tasks, adapterLog,
                   currentState, applyState, eventQueue, pending, trCount,
                   burst, failed, processed, cfgMapper, msgLast, qChan, qRet,
                   qLate>>
    /\ UNCHANGED closeVars

\* CurrentState, RecvOrTimeout receives the reply.
QueryRecv ==
    /\ qPc = "recv"
    /\ qChan # NoReply
    /\ qPc' = "idle"
    /\ qRet' = qChan
    /\ qChan' = NoReply
    /\ UNCHANGED <<ctlVars, drvVars, obsVars, prodVars, wg, events, tasks,
                   adapterLog, processed, cfgMapper, msgLast, qLate>>
    /\ UNCHANGED closeVars

\* CurrentState, RecvOrTimeout times out after time.Second.
QueryTimeout ==
    /\ qPc = "recv"
    /\ qPc' = "idle"
    /\ qRet' = ErrTimeout
    /\ qChan' = NoReply
    /\ UNCHANGED <<ctlVars, drvVars, obsVars, prodVars, wg, events, tasks,
                   adapterLog, processed, cfgMapper, msgLast, qLate>>
    /\ UNCHANGED closeVars

(* ------------------------------------------------ the close protocol: runs *)

\* The error of a daemon adapter call.
ErrAdapter == "adapter"

\* applyEvents on the close machine: the queue is drained, each transition's
\* daemon events are executed (ok: the adapter calls succeed), its internal
\* event is enqueued and its next state committed; the first error ends it.
RECURSIVE CloseApplyEvents(_, _, _, _)
CloseApplyEvents(st, queue, seen, ok) ==
    IF queue = <<>>
    THEN [err |-> NoError, state |-> st, seen |-> seen]
    ELSE LET tr == CloseProcessEvent(st, Head(queue))
         IN CASE tr.err # NoError ->
                   [err |-> tr.err, state |-> st, seen |-> seen]
              [] tr.err = NoError /\ tr.external # <<>> /\ ~ok ->
                   [err |-> ErrAdapter, state |-> st, seen |-> seen]
              [] OTHER ->
                   CloseApplyEvents(
                       tr.next,
                       IF tr.internal # NoEvent
                       THEN Append(Tail(queue), tr.internal)
                       ELSE Tail(queue),
                       Append(seen, tr.next), ok)

\* driveMachine: Env.CleanUp is called if the state a burst ends in is
\* terminal.
CleanUpDue(st) == CloseIsTerminal(st)

\* One event handed to the closer and taken by its driver: applyEvents runs
\* the burst; on an error the driver reports it and returns, otherwise it
\* takes the new state and calls CleanUp if that state is terminal.
CloseSendEvent(ev, ok) ==
    /\ cErr = NoError
    /\ Len(cFed) < MaxCloseEvents
    /\ cFed' = Append(cFed, ev)
    /\ LET r == CloseApplyEvents(cState, <<ev>>, <<>>, ok)
       IN /\ cVisited' = cVisited \o r.seen
          /\ cErr' = r.err
          /\ IF r.err # NoError
             THEN UNCHANGED <<cState, cCleanups>>
             ELSE /\ cState' = r.state
                  /\ cCleanups' = IF CleanUpDue(r.state)
                                  THEN cCleanups + 1 ELSE cCleanups
    /\ UNCHANGED <<cTerms, cCall>>
    /\ UNCHANGED vars

\* The methods of the close terms are called.
CallDeriveCloseTxOuts ==
    /\ cTerms # NoTerms
    /\ cCall' = TermsCall("DeriveCloseTxOuts", 0, DeriveCloseTxOuts(cTerms))
    /\ UNCHANGED <<cState, cFed, cVisited, cCleanups, cErr, cTerms>>
    /\ UNCHANGED vars

CallRemoteAmtIsDust ==
    /\ cTerms # NoTerms
    /\ cCall' = TermsCall("RemoteAmtIsDust", 0, RemoteAmtIsDust(cTerms))
    /\ UNCHANGED <<cState, cFed, cVisited, cCleanups, cErr, cTerms>>
    /\ UNCHANGED vars

CallLocalAmtIsDust ==
    /\ cTerms # NoTerms
    /\ cCall' = TermsCall("LocalAmtIsDust", 0, LocalAmtIsDust(cTerms))
    /\ UNCHANGED <<cState, cFed, cVisited, cCleanups, cErr, cTerms>>
    /\ UNCHANGED vars

CallLocalCanPayFees(fee) ==
    /\ cTerms # NoTerms
    /\ cCall' = TermsCall("LocalCanPayFees", fee, LocalCanPayFees(cTerms, fee))
    /\ UNCHANGED <<cState, cFed, cVisited, cCleanups, cErr, cTerms>>
    /\ UNCHANGED vars

CallRemoteCanPayFees(fee) ==
    /\ cTerms # NoTerms
    /\ cCall' = TermsCall("RemoteCanPayFees", fee,
                          RemoteCanPayFees(cTerms, fee))
    /\ UNCHANGED <<cState, cFed, cVisited, cCleanups, cErr, cTerms>>
    /\ UNCHANGED vars

\* The peer state of one side of a DualPeerState.
PeerState(st, side) == IF side = "local" THEN st.local ELSE st.remote

\* One side of the PeerState of ClosingNegotiation is asked whether the event
\* is for it.
CallShouldRouteTo(side, ev) ==
    /\ cState.name = "ClosingNegotiation"
    /\ cCall' = TermsCall("ShouldRouteTo", <<side, ev>>,
                          ShouldRouteTo(PeerState(cState, side), ev))
    /\ UNCHANGED <<cState, cFed, cVisited, cCleanups, cErr, cTerms>>
    /\ UNCHANGED vars

(* ---------------------------------------------------------- specification *)

DriverStep ==
    \/ \E ok \in BOOLEAN : DriverInitEvent(ok)
    \/ DriverNotifyInit
    \/ DriverTakeEvent
    \/ DriverProcess
    \/ \E ok \in BOOLEAN : DriverExecFx(ok)
    \/ DriverCommit
    \/ DriverBurstEnd
    \/ DriverError
    \/ DriverQuit

Next ==
    \/ Start
    \/ \E t \in Stoppers : StopCall(t)
    \/ \E t \in Stoppers : StopWait(t)
    \/ \E t \in Stoppers : StopUnblock(t)
    \/ \E e \in Events : ProducerSend(e)
    \/ ProducerSendQuit
    \/ DriverStep
    \/ \E t \in tasks, ok \in BOOLEAN : PollerFire(t, ok)
    \/ \E t \in tasks : TaskQuit(t)
    \/ \E t \in tasks : WaiterNotified(t)
    \/ \E t \in tasks : TaskSendEvent(t)
    \/ \E t \in tasks : TaskSendQuit(t)

Spec == Init /\ [][Next]_vars

\* What the scheduler guarantees: a goroutine that can take a step takes one
\* (the driver, the auxiliary goroutines' channel operations, the callers
\* inside Stop, the goroutine of `go s.Stop()`).  Nothing obliges the outside
\* world to call Start, Stop or SendEvent, a notification to arrive or a
\* predicate to become true.
Fairness ==
    /\ WF_vars(DriverStep)
    /\ WF_vars(\E t \in tasks : TaskQuit(t) \/ TaskSendEvent(t)
                                   \/ TaskSendQuit(t))
    /\ WF_vars(\E t \in Stoppers : StopWait(t) \/ StopUnblock(t))
    /\ WF_vars(StopCall("auto"))

FairSpec == Init /\ [][Next]_vars /\ Fairness

\* The machine behind its message and query interface: clients hand it wire
\* messages with SendMessage and ask for its state with CurrentState, while
\* Start and Stop are called and the driver runs.
ApiNext ==
    \/ Start
    \/ \E t \in Stoppers : StopCall(t)
    \/ \E t \in Stoppers : StopWait(t)
    \/ \E t \in Stoppers : StopUnblock(t)
    \/ \E m \in Msgs : SendMessage(m)
    \/ DriverStep
    \/ DriverQuery
    \/ DriverQueryQuit
    \/ QueryCall
    \/ QuerySendQuit
    \/ QueryRecv
    \/ QueryTimeout

ApiSpec == ApiInit /\ [][ApiNext]_vars

\* The channel closer: the close machine fed protocol events, the daemon
\* adapters answering as they will.
CloseInit == Init /\ cfgInit = NoFx

CloseNext == \E ev \in ProtocolEvents, ok \in BOOLEAN : CloseSendEvent(ev, ok)

CloseSpec == CloseInit /\ [][CloseNext]_<<vars, closeVars>>

\* The close terms of a flushed channel, for every pair of balances and of
\* delivery scripts, and the calls of their methods.
TermsInit ==
    /\ InitMachine /\ cfgInit = NoFx /\ cfgMapper = NoMapper
    /\ cState = CloseInitialState
    /\ cFed = <<>>
    /\ cVisited = <<>>
    /\ cCleanups = 0
    /\ cErr = NoError
    /\ cTerms \in AllTerms
    /\ cCall = NoTermsCall

TermsNext ==
    \/ CallDeriveCloseTxOuts
    \/ CallRemoteAmtIsDust
    \/ CallLocalAmtIsDust
    \/ \E fee \in Fees : CallLocalCanPayFees(fee)
    \/ \E fee \in Fees : CallRemoteCanPayFees(fee)

TermsSpec == TermsInit /\ [][TermsNext]_<<vars, closeVars>>

\* The machine left running: events come from the producer and from the
\* auxiliary goroutines, CurrentState is called, and nobody calls Stop (the
\* driver does, on an error, and has returned by then).
BurstInit == Init /\ cfgInit = NoFx

BurstNext ==
    \/ Start
    \/ StopCall("auto")
    \/ StopWait("auto")
    \/ \E e \in Events : ProducerSend(e)
    \/ ProducerSendQuit
    \/ \E ok \in BOOLEAN : DriverInitEvent(ok)
    \/ DriverNotifyInit
    \/ DriverTakeEvent
    \/ DriverProcess
    \/ \E ok \in BOOLEAN : DriverExecFx(ok)
    \/ DriverCommit
    \/ DriverBurstEnd
    \/ DriverError
    \/ \E t \in tasks, ok \in BOOLEAN : PollerFire(t, ok)
    \/ \E t \in tasks : TaskQuit(t)
    \/ \E t \in tasks : WaiterNotified(t)
    \/ \E t \in tasks : TaskSendEvent(t)
    \/ \E t \in tasks : TaskSendQuit(t)
    \/ QueryCall
    \/ QuerySendQuit
    \/ DriverQuery
    \/ QueryRecv
    \/ QueryTimeout

BurstSpec == BurstInit /\ [][BurstNext]_vars

\* A machine whose InitEvent is a spend registration with a PostSpendEvent,
\* fed typed events.
SpendInitEvent == Fx("RegSpend", FALSE, "next")

SpendInit ==
    /\ cfgInit = SpendInitEvent
    /\ NewStateMachine
    /\ cfgMapper = NoMapper
    /\ NoCloser

SpendSpec == SpendInit /\ [][Next]_vars

\* The closer in ClosingNegotiation, in any of the pairs of peer states, and
\* the ShouldRouteTo of either side asked about any event.
RouteInit ==
    /\ InitMachine /\ cfgInit = NoFx /\ cfgMapper = NoMapper
    /\ cState \in {CloseState("ClosingNegotiation", l, r, FALSE) :
                      l \in LocalPeerStates, r \in RemotePeerStates}
    /\ cFed = <<>>
    /\ cVisited = <<>>
    /\ cCleanups = 0
    /\ cErr = NoError
    /\ cTerms = NoTerms
    /\ cCall = NoTermsCall

RouteNext ==
    \E side \in {"local", "remote"}, ev \in ProtocolEvents :
        CallShouldRouteTo(side, ev)

RouteSpec == RouteInit /\ [][RouteNext]_<<vars, closeVars>>

(* ----------------------------------------------------------------- helpers *)

DriverLive == dPc \in {"init", "notify", "select", "apply", "fx", "err"}

\* The goroutines of the machine that are running.
LiveTasks == Cardinality(tasks) + (IF DriverLive THEN 1 ELSE 0)

StopReturned == \E t \in Stoppers : stopPc[t] = "returned"

\* Emission order of two adapter submissions.
Before(a, b) == a.tr < b.tr \/ (a.tr = b.tr /\ a.idx < b.idx)

Last(seq) == seq[Len(seq)]

RECURSIVE Cascade(_, _)
\* The states one burst commits from state st with the queue q, when no
\* transition and no daemon event fails.
Cascade(st, q) ==
    IF q = <<>> THEN <<>>
    ELSE LET tr == ProcessEvent(st, Head(q))
             q2 == IF tr.internal # NoEvent
                   THEN Append(Tail(q), tr.internal) ELSE Tail(q)
         IN IF tr.err THEN <<>> ELSE <<tr.next>> \o Cascade(tr.next, q2)

RECURSIVE Fold(_, _)
\* The states committed by the left fold of the transition function (with
\* each event's cascade) over the events evs, starting from st.
Fold(st, evs) ==
    IF evs = <<>> THEN <<>>
    ELSE LET c == Cascade(st, <<Head(evs)>>)
         IN c \o Fold(IF c = <<>> THEN st ELSE Last(c), Tail(evs))

EventsOf(msgs) == [i \in 1..Len(msgs) |-> msgs[i].ev]

FromProducer(m) == m.src = "prod"

(* ------------------------------------------------------------------ claims *)

\* C1 (as stated): a subscriber is never handed an intermediate state, one
\* published while internal events of the burst were still queued.
C1_NoIntermediateStatePublished ==
    \A i \in 1..Len(published) : ~published[i].mid

\* C1 (amended): every committed transition publishes its next state, the
\* intermediate states of a burst included, one publication per commit; an
\* intermediate state is followed by the next state of the same burst unless
\* the burst is still running or failed; and when a burst has completed the
\* last state published is the one held when the internal queue drained.
C1_BurstPublishedToItsEnd ==
    /\ published # <<>> => Len(published) = Len(committed) + 1
    /\ \A i \in 1..Len(published) :
          published[i].mid =>
             \/ i < Len(published) /\ published[i + 1].burst = published[i].burst
             \/ i = Len(published) /\ (dPc \in {"apply", "fx", "err"} \/ failed)
    /\ (dPc = "select" /\ burst > 0) =>
          /\ Last(published).st = currentState
          /\ Last(published).burst = burst
          /\ ~Last(published).mid

\* C1 witness: a burst with an internal event has completed and its
\* intermediate state was published.
C1_Witness ==
    /\ dPc = "select"
    /\ \E i \in 1..Len(published) : published[i].mid

\* C2: Env.CleanUp is invoked at most once in the lifetime of the machine.
C2_CleanUpAtMostOnce == cleanups <= 1

\* C3: once a burst has ended in a terminal state, the terminal state has been
\* published, CleanUp has been invoked exactly once, and no later event is
\* passed to a transition function.
C3_TerminalStateExits ==
    [][cleanups >= 1 =>
         /\ cleanups = 1
         /\ IsTerminal(Last(published).st)
         /\ trCount' = trCount
         /\ cleanups' = cleanups]_vars

\* C4: after a Stop call has returned no DaemonAdapters method is invoked.
C4_NoAdapterCallAfterStop ==
    [][StopReturned => adapterLog' = adapterLog]_vars

\* C5: once Stop has been called, a later Start does not run a driver.
C5_NoStartAfterStop ==
    [][(quit /\ dPc = "none") => dPc' = "none"]_vars

\* C6: at the moment a Stop call returns, the driver and every auxiliary
\* goroutine have exited.
C6_StopReturnsWithNoLiveTask ==
    [][\A t \in Stoppers :
          (/\ stopPc'[t] = "returned"
           /\ (stopCalls'[t] # stopCalls[t] \/ stopPc[t] # "returned"))
          => LiveTasks' = 0]_vars

\* C7: every Stop call returns: from some point on no caller is inside Stop
\* (waiting for the WaitGroup, or for the first call's stopOnce.Do); the
\* number of Stop calls being finite, a call that never returned would keep
\* its caller inside for ever.
C7_StopTerminates ==
    <>[](\A t \in Stoppers : stopPc[t] \notin {"waiting", "blocked"})

\* C7 witness: the outside caller's Stop and the driver's own `go s.Stop()`
\* have both returned, and the outside caller has called Stop a second time.
C7_Witness ==
    /\ stopPc["auto"] = "returned"
    /\ stopPc["u1"] = "returned"
    /\ stopCalls["u1"] = 2

\* C8: whatever the number of Start calls, one driver goroutine is spawned,
\* the initial daemon event is executed at most once and the initial state is
\* published at most once.
C8_StartIdempotent ==
    /\ spawned <= 1
    /\ startCalls >= 1 => spawned = 1
    /\ Cardinality({i \in 1..Len(adapterLog) : adapterLog[i].tr = 0}) <= 1
    /\ Cardinality({i \in 1..Len(published) : published[i].tr = 0}) <= 1

\* C8 witness: Start was called twice, the initial daemon event was executed
\* and the initial state published.
C8_Witness ==
    /\ startCalls >= 2
    /\ \E i \in 1..Len(adapterLog) : adapterLog[i].tr = 0
    /\ published # <<>>

\* C9: the events of the producer are taken by the driver once each and in
\* the order they were submitted (those accepted are the ones taken followed
\* by the one still in the channel), and at every burst boundary the states
\* committed so far are the left fold of the transition function over the
\* events taken.
C9_FifoAndFold ==
    /\ sent = EventsOf(SelectSeq(processed, FromProducer))
                \o EventsOf(SelectSeq(events, FromProducer))
    /\ dPc = "select" => committed = Fold(InitialState, EventsOf(processed))

\* C9 witness: with no error and no stop, two events of the single producer
\* have been processed, one of them with an internal cascade.
C9_Witness ==
    /\ dPc = "select"
    /\ ~quit
    /\ Len(processed) >= 2
    /\ \A i \in 1..Len(processed) : processed[i].src = "prod"
    /\ Len(committed) > Len(processed)

\* C10 (as stated): the adapter records every submission in emission order,
\* all submissions of a transition before any of a later transition, the
\* predicated sends included.
C10_AllSubmissionsInEmissionOrder ==
    \A i, j \in 1..Len(adapterLog) :
       i < j => Before(adapterLog[i], adapterLog[j])

\* C10 (amended): every submission of a daemon event without send_when is
\* recorded after all submissions emitted before it and before any
\* submission of a later transition made by the driver, and while a
\* transition's daemon events are executed exactly those already executed
\* are recorded; a SendMsg with send_when is submitted later by its poller.
C10_DirectSubmissionsInEmissionOrder ==
    /\ \A i, j \in 1..Len(adapterLog) :
          (i < j /\ ~adapterLog[j].pred)
             => Before(adapterLog[i], adapterLog[j])
    /\ dPc = "fx" =>
          {adapterLog[i].idx : i \in {k \in 1..Len(adapterLog) :
                adapterLog[k].tr = trCount /\ ~adapterLog[k].pred}}
          = {p \in 1..Len(pending.all) :
                /\ CallsAdapter(pending.all[p])
                /\ \A k \in 1..Len(pending.left) : pending.left[k] # p}

\* C10 witness: a predicated send was recorded after a submission that was
\* emitted after it.
C10_Witness ==
    \E i, j \in 1..Len(adapterLog) :
       i < j /\ adapterLog[j].pred /\ Before(adapterLog[j], adapterLog[i])

\* C11: once a transition function has returned an error no further event,
\* internal or external, is passed to a transition function and nothing more
\* is committed; the error is reported to the ErrorReporter exactly once and
\* the driver's own Stop is under way; and the quit channel is eventually
\* closed.
C11_TransitionErrorShutsDown ==
    /\ [][(dPc = "err" \/ failed) =>
            /\ trCount' = trCount
            /\ processed' = processed
            /\ committed' = committed]_vars
    /\ [](dPc = "err" => eventQueue = <<>> /\ reports = 0)
    /\ [](failed => reports = 1 /\ dPc = "exited" /\ stopPc["auto"] # "none")
    /\ <>[](failed => quit)

\* C11 witness: "chain" was rejected by the transition function of state B,
\* the machine has shut down, and an event submitted since sits in the
\* channel unprocessed.
C11_Witness ==
    /\ failed
    /\ Last(processed).ev = "chain" /\ currentState = "B"
    /\ trCount = Len(committed) + 1
    /\ quit /\ stopPc["auto"] = "returned"
    /\ events # <<>>

\* The driver-made call i failed: executeDaemonEvent returned an error to
\* applyEvents for a daemon event of a transition.
FailedEffect(i) ==
    /\ adapterLog[i].err
    /\ ~adapterLog[i].pred
    /\ adapterLog[i].tr >= 1

\* C12: when daemon event k of a transition has failed, no later daemon
\* event of that transition is executed (no adapter call for it, no goroutine
\* for it), the internal event is not enqueued, the transition is neither
\* committed nor published, and the driver ends with the error reported once
\* and its own Stop started.
C12_EffectFailureAbortsTransition ==
    \A i \in 1..Len(adapterLog) :
       FailedEffect(i) =>
          /\ \A j \in 1..Len(adapterLog) :
                adapterLog[j].tr = adapterLog[i].tr
                   => adapterLog[j].idx <= adapterLog[i].idx
          /\ \A j \in (i + 1)..Len(adapterLog) : adapterLog[j].pred
          /\ \A t \in tasks :
                t.id[1] = adapterLog[i].tr => t.id[2] <= adapterLog[i].idx
          /\ eventQueue = <<>>
          /\ trCount = adapterLog[i].tr
          /\ Len(committed) = adapterLog[i].tr - 1
          /\ \A j \in 1..Len(published) : published[j].tr < adapterLog[i].tr
          /\ dPc \in {"err", "exited"}
          /\ dPc = "exited" =>
                reports = 1 /\ failed /\ stopPc["auto"] # "none"

\* C12 witness: the broadcast of "chain" in state A failed; the send after it
\* and the internal event "next" were due, and the driver has ended.
C12_Witness ==
    /\ failed
    /\ \E i \in 1..Len(adapterLog) :
          /\ FailedEffect(i)
          /\ adapterLog[i].kind = "Broadcast" /\ adapterLog[i].idx = 1
          /\ Last(processed).ev = "chain"

\* The goroutine spawned for the daemon event of the adapter call i is live.
WaiterOf(i) ==
    {t \in tasks : t.id = <<adapterLog[i].tr, adapterLog[i].idx>>}

\* C13: a RegisterConf daemon event whose registration succeeded (its waiter
\* was spawned) returns no error to applyEvents, as RegisterSpend does, so
\* that the driver does not end on it.
C13_RegisterConfSucceeds ==
    \A i \in 1..Len(adapterLog) :
       (adapterLog[i].kind \in {"RegConf", "RegSpend"} /\ WaiterOf(i) # {})
          => ~adapterLog[i].err /\ dPc # "err"

\* The adapter calls made for cfg.InitEvent.
InitEventCalls == {i \in 1..Len(adapterLog) : adapterLog[i].tr = 0}

\* C19: until the driver has executed the initial daemon event nothing is
\* published and no event is taken; once it has, a configured initial daemon
\* event is the first adapter call and the only one made for it; the first
\* state published is the initial state; and no event is taken before the
\* initial state is published.
C19_InitEventThenInitialState ==
    /\ dPc \in {"none", "init"} =>
          published = <<>> /\ processed = <<>> /\ InitEventCalls = {}
    /\ (dPc \notin {"none", "init"} /\ cfgInit # NoFx) => InitEventCalls = {1}
    /\ cfgInit = NoFx => InitEventCalls = {}
    /\ published # <<>> =>
          published[1].st = InitialState /\ published[1].tr = 0
    /\ processed # <<>> => published # <<>>

\* C19 witness: a machine configured with an initial daemon event has
\* executed it, published the initial state and then processed an event.
C19_Witness ==
    /\ cfgInit # NoFx
    /\ InitEventCalls = {1}
    /\ Len(published) >= 2
    /\ processed # <<>>

\* The states handed to NotifySubscribers, in order.
PublishedStates == [i \in 1..Len(published) |-> published[i].st]

\* C20: the states published are the initial state followed by the states
\* committed, in commit order; publication i is the one of transition i - 1,
\* so each committed transition is published once; a transition that failed
\* is not published.
C20_PublishedInCommitOrder ==
    /\ published = <<>> => committed = <<>>
    /\ published # <<>> => PublishedStates = <<InitialState>> \o committed
    /\ \A i \in 1..Len(published) : published[i].tr = i - 1
    /\ (dPc = "err" \/ failed) =>
          \A i \in 1..Len(published) : published[i].tr < trCount

\* C20 witness: two transitions were committed and published in order, with
\* different states, and a third one failed.
C20_Witness ==
    /\ failed
    /\ trCount = 3
    /\ Len(committed) = 2 /\ committed[1] # committed[2]
    /\ Len(published) = 3

\* C14: a CurrentState call never depends on the driver to return: while it
\* offers its query and the driver is not in its select (it executes the
\* initial daemon event, is inside a burst or an adapter call, or has
\* exited), the caller has a way out of its own, which is the quit case.
C14_QueryNeverWaitsForDriver ==
    (qPc = "send" /\ dPc \in {"init", "apply", "fx", "err", "exited"}) => quit

\* The state applyEvents last returned to driveMachine.
LastCommitted == IF committed = <<>> THEN InitialState ELSE Last(committed)

\* The states published when no internal event was queued: the initial state
\* and the final states of bursts.
BoundaryStates ==
    {published[i].st : i \in {k \in 1..Len(published) : ~published[k].mid}}

\* C15: a state query is answered only between bursts (the driver in its
\* select, no internal event queued, no transition pending) and with the last
\* committed state, which is the initial state or the final state of a
\* completed burst; and a state CurrentState returns is the one answered.
C15_QueryAnswersBurstBoundary ==
    [][/\ (qChan' # qChan /\ qChan' # NoReply) =>
            /\ dPc = "select" /\ eventQueue = <<>> /\ pending = NoPending
            /\ qChan' = LastCommitted
            /\ qChan' \in BoundaryStates
       /\ (qRet' # qRet /\ qRet' \in States) => qRet' = qChan]_vars

\* C15 witness: after a burst with an intermediate state and a later burst
\* that failed, CurrentState returned the final state of the completed burst.
C15_Witness ==
    /\ qRet \in States /\ qRet # InitialState
    /\ \E i \in 1..Len(published) : published[i].mid
    /\ failed

\* C16: a CurrentState call made after a Stop call has returned returns the
\* shutting-down error, and an event submitted after a Stop call has returned
\* is never taken by the driver.
C16_AfterStopNothingIsServed ==
    /\ (qLate /\ qRet # NoReturn) => qRet = ErrShuttingDown
    /\ \A i \in 1..Len(processed) : processed[i].src # "late"

\* A SendEvent call that cannot complete now: the channel is full and quit
\* is open.
SendBlocked == Len(events) = EventChanCap /\ ~quit

\* C17: on a started machine a SendEvent call that cannot complete is waiting
\* for something that is going to happen: the driver is running and will
\* take the event in the channel, or the driver's own Stop is about to close
\* quit.
C17_BlockedSendIsReleased ==
    (startOnce /\ SendBlocked) => (DriverLive \/ stopPc["auto"] = "idle")

\* C18: SendMessage returns what CanHandle answers for the same message;
\* without a mapper, or for a message the mapper does not map, it returns
\* false and puts nothing into the channel; for a mapped message it returns
\* true whether the event was accepted or dropped on quit.
C18_SendMessageAgreesWithCanHandle ==
    msgLast # NoCall =>
       /\ msgLast.ret = CanHandle(msgLast.msg)
       /\ cfgMapper = NoMapper => ~msgLast.ret /\ ~msgLast.acc
       /\ msgLast.acc => msgLast.ret

\* C18 witness: SendMessage returned true for a message whose event was
\* dropped because quit was closed.
C18_Witness ==
    /\ msgLast # NoCall
    /\ msgLast.ret /\ ~msgLast.acc
    /\ CanHandle(msgLast.msg)

(* ------------------------------------------------- the close protocol: claims *)

\* The protocol states a state of the close machine consists of.
PartsOf(st) == {st.name, st.local, st.remote} \cap ProtocolStates

\* The protocol states the closer has been in.
VisitedParts ==
    UNION {PartsOf(cVisited[i]) : i \in 1..Len(cVisited)} \cup PartsOf(cState)

\* C21: IsTerminal is true for CloseFin and false for every other protocol
\* state the closer gets into (ClosePending in particular), and the driver
\* has called CleanUp only if the closer is in CloseFin.
C21_OnlyCloseFinIsTerminal ==
    /\ \A s \in VisitedParts : ProtocolIsTerminal(s) <=> s = "CloseFin"
    /\ cCleanups > 0 => cState.name = "CloseFin"

\* The events that ask for a new round of the close: our own request and
\* the remote offer.
FreshCloseEvents == {"SendShutdown", "OfferReceivedEvent"}

\* The peer state an event asking for a new round concerns.
PeerOf(st, ev) == IF ev = "OfferReceivedEvent" THEN st.remote ELSE st.local

\* C22: ClosePending answers ShouldRouteTo = true for a fresh SendShutdown
\* and a fresh OfferReceivedEvent, and such an event handed to the closer
\* while the side it concerns is in ClosePending is not rejected as an
\* invalid state transition.
C22_ClosePendingTakesFreshClose ==
    \A ev \in FreshCloseEvents :
        /\ "ClosePending" \in VisitedParts => ShouldRouteTo("ClosePending", ev)
        /\ ~(/\ cErr = ErrInvalidStateTransition
             /\ cFed # <<>>
             /\ Last(cFed) = ev
             /\ PeerOf(cState, ev) = "ClosePending")

\* C23: a side's output is omitted by DeriveCloseTxOuts exactly if the side
\* is dust according to LocalAmtIsDust / RemoteAmtIsDust, and a side is dust
\* exactly if its settled balance in satoshis is strictly below
\* DustLimitForSize of its script's length (so the output of a balance equal
\* to the dust limit is included).
C23_OutputOmittedIffDust ==
    /\ cCall.fn = "DeriveCloseTxOuts" =>
          /\ cCall.ret[1] = NilTxOut <=> LocalAmtIsDust(cTerms)
          /\ cCall.ret[2] = NilTxOut <=> RemoteAmtIsDust(cTerms)
    /\ cCall.fn = "LocalAmtIsDust" =>
          (cCall.ret <=> ToSatoshis(cTerms.LocalBalance)
                            < DustLimitForSize(cTerms.LocalDeliveryScript))
    /\ cCall.fn = "RemoteAmtIsDust" =>
          (cCall.ret <=> ToSatoshis(cTerms.RemoteBalance)
                            < DustLimitForSize(cTerms.RemoteDeliveryScript))

\* ClosingNegotiation with the given peer states.
Negotiation(local, remote) ==
    CloseState("ClosingNegotiation", local, remote, FALSE)

\* The events of a close we initiate that the remote side only answers, and
\* the states the closer is to go through.
HappyEvents ==
    <<"SendShutdown", "ShutdownComplete", "ChannelFlushed", "SendOfferEvent",
      "LocalSigReceived", "SpendEvent">>
HappyStates ==
    <<Outer("ShutdownPending"), Outer("ChannelFlushing"),
      Negotiation("LocalCloseStart", "RemoteCloseStart"),
      Negotiation("LocalOfferSent", "RemoteCloseStart"),
      Negotiation("ClosePending", "RemoteCloseStart"),
      Outer("CloseFin")>>

C25_EarlyOfferReplayed ==
    [][/\ (/\ cState.name = "ChannelFlushing"
           /\ cFed' = Append(cFed, "OfferReceivedEvent"))
          => /\ cErr' = NoError
             /\ cState' = [cState EXCEPT !.early = TRUE]
       /\ (/\ cState.name = "ChannelFlushing"
           /\ cState.early
           /\ cFed' = Append(cFed, "ChannelFlushed"))
          => /\ cErr' \in {NoError, ErrAdapter}
             /\ cErr' = NoError =>
                   /\ cState' = Negotiation("LocalCloseStart", "ClosePending")
                   /\ cVisited' = cVisited \o
                         <<Negotiation("LocalCloseStart", "RemoteCloseStart"),
                           Negotiation("LocalCloseStart", "ClosePending")>>
      ]_<<vars, closeVars>>

\* The remote side is in ClosePending after a ChannelFlushed, and one
\* OfferReceivedEvent only was handed to the closer.
C25_Witness ==
    /\ cErr = NoError
    /\ cState = Negotiation("LocalCloseStart", "ClosePending")
    /\ cFed # <<>>
    /\ Last(cFed) = "ChannelFlushed"
    /\ Cardinality({i \in 1..Len(cFed) : cFed[i] = "OfferReceivedEvent"}) = 1

\* C26: LocalCanPayFees(fee) is true exactly if the local settled balance in
\* satoshis is at least the fee, RemoteCanPayFees(fee) exactly if the remote
\* one is.
C26_CanPayFeesIffBalanceCovers ==
    /\ cCall.fn = "LocalCanPayFees" =>
          (cCall.ret <=> ToSatoshis(cTerms.LocalBalance) >= cCall.arg)
    /\ cCall.fn = "RemoteCanPayFees" =>
          (cCall.ret <=> ToSatoshis(cTerms.RemoteBalance) >= cCall.arg)

\* LocalCanPayFees was asked for a fee equal to the local balance's
\* satoshis, of a balance that is no whole number of satoshis.
C26_Witness ==
    /\ cCall.fn = "LocalCanPayFees"
    /\ cCall.arg = ToSatoshis(cTerms.LocalBalance)
    /\ cTerms.LocalBalance % 1000 # 0
    /\ cCall.ret

(* ------------------------------------------------ bursts and effects: claims *)

InBurst == dPc \in {"apply", "fx", "err"}

\* C28: while the driver is inside a burst it takes no event from the
\* events channel and answers no state query; every event taken from the
\* channel, those of the auxiliary goroutines included, is taken between
\* bursts and starts a burst of its own.
C28_BurstNotInterleaved ==
    [][/\ InBurst =>
             /\ processed' = processed
             /\ burst' = burst
             /\ ~(qPc = "send" /\ qPc' = "recv")
       /\ processed' # processed =>
             /\ dPc = "select"
             /\ events # <<>>
             /\ processed' = Append(processed, Head(events))
             /\ eventQueue' = <<Head(events).ev>>
             /\ burst' = burst + 1
      ]_vars

\* An event of an auxiliary goroutine has been processed, a burst had more
\* than one transition and a state query was answered.
C28_Witness ==
    /\ \E i \in 1..Len(processed) : processed[i].src = "aux"
    /\ trCount > burst
    /\ qRet \in States

\* The goroutines that hand a PostSendEvent to SendEvent.
Dispatchers(ts) == {t \in ts : t.kind = "disp"}

\* C29: inside a burst the driver always has a step to take, however full
\* the events channel is, and takes none that touches the channel; the
\* goroutine that delivers the PostSendEvent of a send made by the driver is
\* spawned with the SendMessages call, which succeeded, and an event
\* arrives on the channel from such a goroutine only as its last step.
C29_PostSendLeavesDriverFree ==
    /\ [](InBurst => ENABLED DriverStep)
    /\ [][/\ (InBurst /\ dPc' # dPc) => events' = events
          /\ \A t \in Dispatchers(tasks') \ Dispatchers(tasks) :
                /\ Len(adapterLog') = Len(adapterLog) + 1
                /\ Last(adapterLog').kind = "SendMsg"
                /\ <<Last(adapterLog').tr, Last(adapterLog').idx>> = t.id
                /\ ~Last(adapterLog').err
                /\ \A i \in 1..Len(adapterLog) :
                      <<adapterLog[i].tr, adapterLog[i].idx>> # t.id
          /\ \A t \in Dispatchers(tasks) \ Dispatchers(tasks') :
                /\ t.pc = "send"
                /\ \/ events' = Append(events, Msg(t.post, "aux"))
                   \/ quit /\ events' = events
         ]_vars

\* A burst has ended while the events channel is full and the goroutine of
\* a PostSendEvent is waiting to hand its event to it.
C29_Witness ==
    /\ dPc = "select"
    /\ Len(events) = EventChanCap
    /\ \E t \in Dispatchers(tasks) :
          \E i \in 1..Len(adapterLog) :
             /\ <<adapterLog[i].tr, adapterLog[i].idx>> = t.id
             /\ ~adapterLog[i].pred

\* The goroutines polling a SendWhen predicate.
Pollers(ts) == {t \in ts : t.kind = "poller"}

\* The SendMessages calls made for the daemon event a goroutine serves.
CallsFor(t) ==
    {i \in 1..Len(adapterLog) :
        <<adapterLog[i].tr, adapterLog[i].idx>> = t.id}

\* A poller has made no SendMessages call as long as it polls, and it ends
\* either with the one SendMessages call of its daemon event, made whether
\* the call succeeds or fails, or on the quit case with no call.
PollerSendsOnceOrQuits ==
    /\ [](\A t \in Pollers(tasks) : CallsFor(t) = {})
    /\ [][\A t \in Pollers(tasks) \ Pollers(tasks') :
             \/ /\ Len(adapterLog') = Len(adapterLog) + 1
                /\ SubSeq(adapterLog', 1, Len(adapterLog)) = adapterLog
                /\ Last(adapterLog').kind = "SendMsg"
                /\ Last(adapterLog').pred
                /\ <<Last(adapterLog').tr, Last(adapterLog').idx>> = t.id
             \/ /\ quit
                /\ adapterLog' = adapterLog
         ]_vars

\* C30 as stated: the poller sends once, on the first poll that returns
\* true, and ends; once shutdown has been signalled, a poller that has not
\* sent ends without sending.
C30_NoPolledSendAfterShutdown ==
    /\ PollerSendsOnceOrQuits
    /\ [][quit /\ adapterLog' # adapterLog => ~Last(adapterLog').pred]_vars

\* C30, amended: no SendMessages call is made for a predicated send while
\* its polls return false; the first poll that returns true is followed by
\* exactly one call, whether it succeeds or fails, and the end of the
\* poller; a poller that takes the quit case ends without a call (a poll
\* taken although shutdown has been signalled still sends).
C30_PollerSendsOnceOrQuits ==
    /\ PollerSendsOnceOrQuits
    /\ [](\A i, j \in 1..Len(adapterLog) :
             /\ adapterLog[i].pred
             /\ adapterLog[i].tr = adapterLog[j].tr
             /\ adapterLog[i].idx = adapterLog[j].idx
             => i = j)

\* A poller has made its SendMessages call and ended, before any shutdown.
C30_Witness ==
    /\ Pollers(tasks) = {}
    /\ ~quit
    /\ \E i \in 1..Len(adapterLog) : adapterLog[i].pred

(* ------------------------------------------------------------------ C31 *)

\* The polled sends that failed, as positions of adapterLog.
FailedPolledSends == {i \in 1..Len(adapterLog) : adapterLog[i].sendErr}

\* C31: a predicated send that fails after its predicate fired does not shut
\* the machine down.  The step in which the send fails leaves the quit
\* channel, the Stop callers, the events channel and the whole of the driver
\* (its position, its current state, the burst it is applying) as they were,
\* so the driver goes on with the events that follow; and no goroutine ever
\* hands the PostSendEvent of a failed send to SendEvent.
C31_FailedPolledSendIsNotFatal ==
    /\ [](\A i \in FailedPolledSends :
            \A t \in tasks :
                ~(t.kind = "disp"
                  /\ t.id = <<adapterLog[i].tr, adapterLog[i].idx>>))
    /\ [][(adapterLog' # adapterLog /\ Last(adapterLog').sendErr)
            => /\ quit' = quit
               /\ stopPc' = stopPc
               /\ stopOnce' = stopOnce
               /\ events' = events
               /\ failed' = failed
               /\ reports' = reports
               /\ UNCHANGED drvVars]_vars

\* A polled send has failed, the machine is not shutting down, and the driver
\* has since executed a daemon event of a later transition.
C31_Witness ==
    /\ ~quit
    /\ stopPc["auto"] = "none"
    /\ dPc # "exited"
    /\ \E i \in FailedPolledSends :
          \E j \in (i + 1)..Len(adapterLog) :
              /\ ~adapterLog[j].pred
              /\ adapterLog[j].tr > adapterLog[i].tr

(* ------------------------------------------------------------------ C32 *)

\* C32: when a predicated send fails after its predicate fired, the error is
\* handed to the ErrorReporter: the step in which the send fails makes one
\* ReportError call.
C32_FailedPolledSendIsReported ==
    [][(adapterLog' # adapterLog /\ Last(adapterLog').sendErr)
         => reports' = reports + 1]_vars

(* ------------------------------------------------------------------ C33 *)

\* The goroutines waiting for, or handing on, a spend notification.
SpendWaiters(ts) == {t \in ts : t.kind = "spend"}

\* No goroutine of the daemon event t serves is left in ts.
Ended(t, ts) == \A u \in ts : u.id # t.id

\* The RegisterSpendNtfn calls that returned an error.
FailedSpendRegistrations ==
    {i \in 1..Len(adapterLog) :
        adapterLog[i].kind = "RegSpend" /\ adapterLog[i].err}

\* A failed registration shuts the machine down: the driver is about to
\* report it, or Stop has been launched (or quit is closed already).
SpendFailureShutsDown ==
    \A i \in FailedSpendRegistrations :
        dPc = "err" \/ stopPc["auto"] # "none" \/ quit

\* One step of the spend waiters: a waiter is born waiting, by a successful
\* registration; it leaves the wait on the notification (to SendEvent when
\* there is a PostSpendEvent, else it ends) or on quit; SendEvent puts the
\* event on the channel, or drops it on quit, and the goroutine ends.
SpendWaiterStep ==
    /\ \A t \in SpendWaiters(tasks') \ SpendWaiters(tasks) :
          \/ /\ t.pc = "wait"
             /\ Ended(t, tasks)
             /\ adapterLog' # adapterLog
             /\ Last(adapterLog').kind = "RegSpend"
             /\ <<Last(adapterLog').tr, Last(adapterLog').idx>> = t.id
          \/ /\ t.pc = "send"
             /\ [t EXCEPT !.pc = "wait"] \in tasks
             /\ events' = events
    /\ \A t \in SpendWaiters(tasks) \ SpendWaiters(tasks') :
          \/ /\ t.pc = "wait"
             /\ events' = events
             /\ \/ t.post # NoEvent /\ [t EXCEPT !.pc = "send"] \in tasks'
                \/ (t.post = NoEvent \/ quit) /\ Ended(t, tasks')
          \/ /\ t.pc = "send"
             /\ Ended(t, tasks')
             /\ \/ events' = Append(events, Msg(t.post, "aux"))
                \/ quit /\ events' = events

\* C33: for a RegisterSpend effect whose registration succeeds the
\* PostSpendEvent is handed to the machine at most once, and only after the
\* spend notification; the waiter ends with that delivery or on shutdown; a
\* registration that fails shuts the machine down.
C33_SpendWaiterDeliversOnceOrShutsDown ==
    /\ []SpendFailureShutsDown
    /\ [][SpendWaiterStep]_vars

(* ------------------------------------------------------------------ C34 *)

\* executeDaemonEvent returned an error for cfg.InitEvent.
InitEventFailed == \E i \in InitEventCalls : adapterLog[i].err

\* C34: a failing InitEvent shuts the machine down as any failing daemon
\* event does: once the driver has handled the failure the error has been
\* handed to ReportError and the driver's own Stop has been launched (or quit
\* is closed already), so that no caller of SendEvent or CurrentState is left
\* waiting for a Stop from outside.
C34_InitFailureShutsDown ==
    InitEventFailed =>
        \/ dPc = "err"
        \/ /\ reports > 0
           /\ stopPc["auto"] # "none" \/ quit

(* ------------------------------------------------------------------ C35 *)

\* The side a ShouldRouteTo call was not made to.
OtherSide(side) == IF side = "local" THEN "remote" ELSE "local"

\* Both parties' close transactions are out.
BothClosePending ==
    cState.local = "ClosePending" /\ cState.remote = "ClosePending"

\* C35: in ClosingNegotiation, whatever the pair of peer states and the
\* event, when one side's ShouldRouteTo answers true the other side's
\* answers false.
C35_AtMostOneSideRoutes ==
    (cCall.fn = "ShouldRouteTo" /\ cCall.ret)
        => ~ShouldRouteTo(PeerState(cState, OtherSide(cCall.arg[1])),
                          cCall.arg[2])

\* C35 as it holds: the two sides never both answer true, but for SpendEvent
\* when both are in ClosePending, where both do.
C35_AtMostOneSideRoutesButSpend ==
    cCall.fn = "ShouldRouteTo" =>
        IF BothClosePending /\ cCall.arg[2] = "SpendEvent"
        THEN /\ cCall.ret
             /\ ShouldRouteTo(PeerState(cState, OtherSide(cCall.arg[1])),
                              cCall.arg[2])
        ELSE cCall.ret
               => ~ShouldRouteTo(PeerState(cState, OtherSide(cCall.arg[1])),
                                 cCall.arg[2])

\* With both sides in ClosePending the remote side was asked about the spend
\* and answered true.
C35_Witness ==
    /\ BothClosePending
    /\ cCall.fn = "ShouldRouteTo"
    /\ cCall.arg = <<"remote", "SpendEvent">>
    /\ cCall.ret

====
